---- MODULE Spec2Model ----
(***************************************************************************)
(* A model of scripts/benford_analysis.py: the worksheet extractor         *)
(* (column_index_from_ref, read_shared_strings, parse_cell_value,          *)
(* load_first_sheet), the column classifier (parse_numeric,                *)
(* numeric_columns, is_date_like_column) and the Benford engine            *)
(* (leading_digits, benford_for_column, summarize_benford).                *)
(*                                                                         *)
(* Representation.                                                         *)
(*  - A Python str is a tuple of one-character strings, so that strip,     *)
(*    lower, replace, "in", int(), float() and str() are computed.         *)
(*  - A Python float is a record [cls, neg, hi, lo, frac]: cls is "nan",   *)
(*    "inf" or "fin"; a finite magnitude is hi * Limb + lo + frac / 1000.  *)
(*    The finite domain is the integers of magnitude below 10^15 and the   *)
(*    magnitudes below 10^8 with at most three decimals; on it the float   *)
(*    operations the program uses are exact except math.log10 just below   *)
(*    10^15, which rounds up to 15.0 (FloorLog10), and three quotients     *)
(*    below 1 (SubUnitLeading).                                            *)
(*  - A Python value (None, float, str) is a record [k, f, s].             *)
(*  - A dict is a sequence of [key, val] records in insertion order.       *)
(*  - observed, deviation and mad are exact rationals over the expected    *)
(*    frequencies rounded to six decimals (EXPECTED_DIGITS, in millionths).*)
(*  - A row element's r attribute is its integer; 0 stands for an absent   *)
(*    attribute (the program's default "0") as well as a declared 0.       *)
(***************************************************************************)
EXTENDS Integers, Sequences, FiniteSets, TLC

VARIABLES pc, package, cell, sst, value, sheet, columns, summary, detail, err

vars == <<pc, package, cell, sst, value, sheet, columns, summary, detail, err>>

(***************************************************************************)
(* Characters and strings                                                  *)
(***************************************************************************)

\* The characters in use, in code-point order (ord).
CharOrder ==
  << " ", "+", ",", "-", ".", "/",
     "0", "1", "2", "3", "4", "5", "6", "7", "8", "9",
     "A", "B", "C", "D", "E", "F", "G", "H", "I", "J", "K", "L", "M",
     "N", "O", "P", "Q", "R", "S", "T", "U", "V", "W", "X", "Y", "Z",
     "a", "b", "c", "d", "e", "f", "g", "h", "i", "j", "k", "l", "m",
     "n", "o", "p", "q", "r", "s", "t", "u", "v", "w", "x", "y", "z" >>

CharSet == {CharOrder[i] : i \in 1..Len(CharOrder)}

Ord == [c \in CharSet |-> CHOOSE i \in 1..Len(CharOrder) : CharOrder[i] = c]

IsUpper(c) == Ord[c] >= Ord["A"] /\ Ord[c] <= Ord["Z"]

IsDigit(c) == Ord[c] >= Ord["0"] /\ Ord[c] <= Ord["9"]

IsSpace(c) == c = " "

\* str.lower, one character
LowerChar(c) == IF IsUpper(c) THEN CharOrder[Ord[c] - Ord["A"] + Ord["a"]] ELSE c

\* str.lower
Lower(s) == [i \in 1..Len(s) |-> LowerChar(s[i])]

\* str.strip
RECURSIVE LStrip(_)
LStrip(s) == IF s # <<>> /\ IsSpace(Head(s)) THEN LStrip(Tail(s)) ELSE s

RECURSIVE RStrip(_)
RStrip(s) ==
  IF s # <<>> /\ IsSpace(s[Len(s)]) THEN RStrip(SubSeq(s, 1, Len(s) - 1)) ELSE s

Strip(s) == RStrip(LStrip(s))

\* str.startswith, str.endswith
StartsWith(s, p) == Len(p) <= Len(s) /\ SubSeq(s, 1, Len(p)) = p

EndsWith(s, p) == Len(p) <= Len(s) /\ SubSeq(s, Len(s) - Len(p) + 1, Len(s)) = p

\* the "in" operator on strings
Contains(s, p) == \E i \in 0..(Len(s) - Len(p)) : SubSeq(s, i + 1, i + Len(p)) = p

\* str.replace(c, "")
RemoveChar(s, c) == SelectSeq(s, LAMBDA x : x # c)

\* The order of str under < (what sorted() uses).
RECURSIVE StrLess(_, _)
StrLess(a, b) ==
  IF b = <<>> THEN FALSE
  ELSE IF a = <<>> THEN TRUE
  ELSE IF Head(a) = Head(b) THEN StrLess(Tail(a), Tail(b))
  ELSE Ord[Head(a)] < Ord[Head(b)]

AllDigits(s) == \A i \in 1..Len(s) : IsDigit(s[i])

RECURSIVE DigitsToNat(_)
DigitsToNat(s) ==
  IF s = <<>> THEN 0
  ELSE 10 * DigitsToNat(SubSeq(s, 1, Len(s) - 1)) + (Ord[s[Len(s)]] - Ord["0"])

RECURSIVE NatToDigits(_)
NatToDigits(n) ==
  IF n < 10 THEN <<CharOrder[Ord["0"] + n]>>
  ELSE NatToDigits(n \div 10) \o <<CharOrder[Ord["0"] + (n % 10)]>>

RECURSIVE Pow10(_)
Pow10(k) == IF k = 0 THEN 1 ELSE 10 * Pow10(k - 1)

\* the number of decimal digits of n > 0
RECURSIVE NumDigits(_)
NumDigits(n) == IF n < 10 THEN 1 ELSE 1 + NumDigits(n \div 10)

\* n as exactly w digits, zero-padded on the left
RECURSIVE PadDigits(_, _)
PadDigits(n, w) ==
  IF w = 0 THEN <<>> ELSE PadDigits(n \div 10, w - 1) \o <<CharOrder[Ord["0"] + (n % 10)]>>

(***************************************************************************)
(* Floats                                                                  *)
(***************************************************************************)

\* The integer part of a finite magnitude is hi * Limb + lo.
LimbDigits == 8

Limb == Pow10(LimbDigits)

\* The decimals kept of a finite magnitude.
FracDigits == 3

FracUnit == Pow10(FracDigits)

Fin(neg, hi, lo, frac) == [cls |-> "fin", neg |-> neg, hi |-> hi, lo |-> lo, frac |-> frac]

NaN == [cls |-> "nan", neg |-> FALSE, hi |-> 0, lo |-> 0, frac |-> 0]

Inf(neg) == [cls |-> "inf", neg |-> neg, hi |-> 0, lo |-> 0, frac |-> 0]

FloatOfInt(n) == Fin(n < 0, 0, IF n < 0 THEN -n ELSE n, 0)

\* value == 0 (true of 0.0 and -0.0, of no nan or inf)
IsZero(f) == f.cls = "fin" /\ f.hi = 0 /\ f.lo = 0 /\ f.frac = 0

\* abs(value)
Abs(f) == [f EXCEPT !.neg = FALSE]

\* float(text): surrounding whitespace, a sign, then nan, inf, infinity (any case)
\* or digits with an optional point. Exponents and underscores are outside the
\* inputs drawn here. ok = FALSE is ValueError.
TxtNan == <<"n", "a", "n">>

TxtInf == <<"i", "n", "f">>

TxtInfinity == <<"i", "n", "f", "i", "n", "i", "t", "y">>

NoFloat == [ok |-> FALSE, f |-> NaN]

UnsignedBody(s) == IF s # <<>> /\ Head(s) \in {"+", "-"} THEN Tail(s) ELSE s

PointAt(s) == IF \E i \in 1..Len(s) : s[i] = "."
              THEN CHOOSE i \in 1..Len(s) : s[i] = "." /\ \A j \in 1..(i - 1) : s[j] # "."
              ELSE Len(s) + 1

ParseFloat(text) ==
  LET t    == Strip(text)
      neg  == t # <<>> /\ Head(t) = "-"
      b    == UnsignedBody(t)
      p    == PointAt(b)
      ip   == SubSeq(b, 1, p - 1)
      fp   == SubSeq(b, p + 1, Len(b))
      ipHi == IF Len(ip) > LimbDigits THEN SubSeq(ip, 1, Len(ip) - LimbDigits) ELSE <<>>
      ipLo == IF Len(ip) > LimbDigits THEN SubSeq(ip, Len(ip) - LimbDigits + 1, Len(ip)) ELSE ip
  IN  IF Lower(b) = TxtNan THEN [ok |-> TRUE, f |-> NaN]
      ELSE IF Lower(b) \in {TxtInf, TxtInfinity} THEN [ok |-> TRUE, f |-> Inf(neg)]
      ELSE IF /\ AllDigits(ip) /\ AllDigits(fp)
              /\ Len(ip) + Len(fp) > 0
              /\ Len(fp) <= FracDigits
           THEN [ok |-> TRUE,
                 f  |-> Fin(neg, DigitsToNat(ipHi), DigitsToNat(ipLo),
                            DigitsToNat(fp) * Pow10(FracDigits - Len(fp)))]
      ELSE NoFloat

\* str(float): repr of a float below 10^16
RECURSIVE TrimZeros(_)
TrimZeros(s) ==
  IF Len(s) > 1 /\ s[Len(s)] = "0" THEN TrimZeros(SubSeq(s, 1, Len(s) - 1)) ELSE s

FloatStr(f) ==
  LET sign == IF f.neg THEN <<"-">> ELSE <<>>
      int  == IF f.hi > 0 THEN NatToDigits(f.hi) \o PadDigits(f.lo, LimbDigits)
              ELSE NatToDigits(f.lo)
  IN  IF f.cls = "nan" THEN TxtNan
      ELSE IF f.cls = "inf" THEN sign \o TxtInf
      ELSE sign \o int \o <<".">> \o TrimZeros(PadDigits(f.frac, FracDigits))

\* int(text): surrounding whitespace, a sign, digits. ok = FALSE is ValueError.
ParseInt(text) ==
  LET t   == Strip(text)
      neg == t # <<>> /\ Head(t) = "-"
      b   == UnsignedBody(t)
  IN  IF b # <<>> /\ AllDigits(b)
      THEN [ok |-> TRUE, n |-> IF neg THEN -DigitsToNat(b) ELSE DigitsToNat(b)]
      ELSE [ok |-> FALSE, n |-> 0]

(***************************************************************************)
(* Python values                                                           *)
(***************************************************************************)

None == [k |-> "None", f |-> NaN, s |-> <<>>]

PyFloat(f) == [k |-> "float", f |-> f, s |-> <<>>]

PyStr(s) == [k |-> "str", f |-> NaN, s |-> s]

\* bool(value): None, 0.0 and "" are false
Truthy(v) ==
  CASE v.k = "None"  -> FALSE
    [] v.k = "float" -> ~IsZero(v.f)
    [] v.k = "str"   -> v.s # <<>>

\* str(value)
StrOf(v) ==
  CASE v.k = "None"  -> <<"N", "o", "n", "e">>
    [] v.k = "float" -> FloatStr(v.f)
    [] v.k = "str"   -> v.s

(***************************************************************************)
(* XML elements                                                            *)
(***************************************************************************)

\* An element text or attribute that may be missing (Python None).
Absent == [has |-> FALSE, s |-> <<>>]

Txt(s) == [has |-> TRUE, s |-> s]

\* A <c> element: r is its address (attrib.get("r", "")), t its declared type
\* ("absent" when it has no t attribute), is the text of the <t> under its <is>
\* element, v the text of its <v> element.
Cell(r, t, is, v) == [r |-> r, t |-> t, is |-> is, v |-> v]

\* A <row> element: r is int(attrib.get("r", "0")), cells its <c> children.
Row(r, cells) == [r |-> r, cells |-> cells]

(***************************************************************************)
(* CellRef resolver, shared strings, cell decoder                          *)
(***************************************************************************)

\* re.match(r"([A-Z]+)", cell_ref): the leading run of capitals
RECURSIVE LeadingLetters(_)
LeadingLetters(s) ==
  IF s # <<>> /\ IsUpper(Head(s)) THEN <<Head(s)>> \o LeadingLetters(Tail(s)) ELSE <<>>

RECURSIVE Base26(_, _)
Base26(letters, result) ==
  IF letters = <<>> THEN result
  ELSE Base26(Tail(letters), result * 26 + (Ord[Head(letters)] - Ord["A"] + 1))

column_index_from_ref(cell_ref) == Base26(LeadingLetters(cell_ref), 0)

\* "".join(node.text or "" for the <t> nodes of one <si>)
RECURSIVE JoinFragments(_)
JoinFragments(si) ==
  IF si = <<>> THEN <<>>
  ELSE (IF Head(si).has THEN Head(si).s ELSE <<>>) \o JoinFragments(Tail(si))

SharedStringsName ==
  << "x", "l", "/", "s", "h", "a", "r", "e", "d", "S", "t", "r", "i", "n", "g", "s",
     ".", "x", "m", "l" >>

HasPart(pkg, name) == \E i \in 1..Len(pkg.names) : pkg.names[i] = name

read_shared_strings(pkg) ==
  IF HasPart(pkg, SharedStringsName)
  THEN [i \in 1..Len(pkg.strings) |-> JoinFragments(pkg.strings[i])]
  ELSE <<>>

\* shared_strings[n] with Python's indexing: a negative n counts from the end.
\* ok = FALSE is IndexError.
PyIndex(list, n) ==
  IF n >= 0 /\ n < Len(list) THEN [ok |-> TRUE, s |-> list[n + 1]]
  ELSE IF n < 0 /\ -n <= Len(list) THEN [ok |-> TRUE, s |-> list[Len(list) + n + 1]]
  ELSE [ok |-> FALSE, s |-> <<>>]

SharedStringAt(shared_strings, raw) ==
  LET i == ParseInt(raw)
      e == PyIndex(shared_strings, i.n)
  IN  IF i.ok /\ e.ok THEN PyStr(e.s) ELSE None

FloatOrRaw(raw) ==
  LET p == ParseFloat(raw) IN IF p.ok THEN PyFloat(p.f) ELSE PyStr(raw)

parse_cell_value(c, shared_strings) ==
  IF c.t = "inlineStr" THEN (IF c.is.has THEN PyStr(c.is.s) ELSE None)
  ELSE IF ~c.v.has THEN None
  ELSE IF c.t = "s" THEN SharedStringAt(shared_strings, c.v.s)
  ELSE IF c.t \in {"absent", "n"} THEN FloatOrRaw(c.v.s)
  ELSE PyStr(c.v.s)

(***************************************************************************)
(* State                                                                   *)
(*   pc       where the run is                                             *)
(*   package  the zip container: names (namelist()), docs (the <row>       *)
(*            elements of each part, by position) and strings (the <si>    *)
(*            elements of the shared-strings part)                         *)
(*   cell, sst, value   one call of parse_cell_value: its arguments and    *)
(*            what it returned                                             *)
(*   sheet    what load_first_sheet returned                               *)
(*   columns  what numeric_columns returned                                *)
(*   summary, detail   what summarize_benford returned                     *)
(*   err      "none", or the exception that ended the run                  *)
(***************************************************************************)

NoPackage == [names |-> <<>>, docs |-> <<>>, strings |-> <<>>]

NoSheet == [headers |-> <<>>, rows |-> <<>>]

NoCell == Cell(<<>>, "absent", Absent, Absent)

(***************************************************************************)
(* One call of parse_cell_value                                            *)
(***************************************************************************)

\* The shared-string tables have up to MaxTable entries.
MaxTable == 2

SampleStrings ==
  << <<"A", "l", "p", "h", "a">>, <<"B", "e", "t", "a">>, <<>>, <<"x">> >>

DecodeTables == {SubSeq(SampleStrings, 1, n) : n \in 0..MaxTable}

IntText(i) == IF i < 0 THEN <<"-">> \o NatToDigits(-i) ELSE NatToDigits(i)

DecodeRaws ==
  {Absent}
    \cup {Txt(IntText(i)) : i \in (-(MaxTable + 1))..(MaxTable + 1)}
    \cup {Txt(t) : t \in { <<"x">>, <<" ", "1", " ">>, <<"+", "1">>, <<"1", ".", "0">>,
                           <<"n", "a", "n">>, <<"1", ",", "0", "0", "0">> }}

CellTypes == {"absent", "n", "s", "inlineStr", "str"}

DecodeCells ==
  {Cell(<<"A", "1">>, t, is, v) :
     t \in CellTypes, is \in {Absent, Txt(<<"I", "n">>)}, v \in DecodeRaws}

InitDecode ==
  /\ pc = "decode"
  /\ cell \in DecodeCells
  /\ sst \in DecodeTables
  /\ value = None
  /\ package = NoPackage
  /\ sheet = NoSheet
  /\ columns = <<>>
  /\ summary = <<>>
  /\ detail = <<>>
  /\ err = "none"

ParseCell ==
  /\ pc = "decode"
  /\ value' = parse_cell_value(cell, sst)
  /\ pc' = "decoded"
  /\ UNCHANGED <<package, cell, sst, sheet, columns, summary, detail, err>>

NextDecode == ParseCell

SpecDecode == InitDecode /\ [][NextDecode]_vars

\* C1: for a cell typed "s" with a value text, parse_cell_value returns the
\* shared string at index i exactly when the text parses as an integer i with
\* 0 <= i < len(shared_strings), and None (Empty) in every other case, negative
\* integers included.
C1_SharedStringInRangeOnly ==
  (pc = "decoded" /\ cell.t = "s" /\ cell.v.has) =>
     LET i == ParseInt(cell.v.s)
     IN  IF i.ok /\ i.n >= 0 /\ i.n < Len(sst)
         THEN value = PyStr(sst[i.n + 1])
         ELSE value = None

(***************************************************************************)
(* Worksheet extractor                                                     *)
(***************************************************************************)

SheetPrefix ==
  << "x", "l", "/", "w", "o", "r", "k", "s", "h", "e", "e", "t", "s", "/",
     "s", "h", "e", "e", "t" >>

DotXml == <<".", "x", "m", "l">>

IsWorksheetName(name) == StartsWith(name, SheetPrefix) /\ EndsWith(name, DotXml)

\* sorted(names)
RECURSIVE InsertName(_, _)
InsertName(x, sorted) ==
  IF sorted = <<>> THEN <<x>>
  ELSE IF StrLess(x, Head(sorted)) THEN <<x>> \o sorted
  ELSE <<Head(sorted)>> \o InsertName(x, Tail(sorted))

\* The part names as namelist() lists them, the sorted() of line 72 left out.
UnsortedNames(names) == names

RECURSIVE SortedNames(_)
SortedNames(names) ==
  IF names = <<>> THEN <<>>
  ELSE InsertName(names[Len(names)], SortedNames(SubSeq(names, 1, Len(names) - 1)))

\* lines 72-76
SheetNames(pkg) == SortedNames(SelectSeq(pkg.names, IsWorksheetName))

\* zip_file.read(name), parsed: the <row> elements of the part
ReadPart(pkg, name) == pkg.docs[CHOOSE i \in 1..Len(pkg.names) : pkg.names[i] = name]

\* dict.get(key): None when the key is missing
DictGet(d, key) == IF key \in DOMAIN d THEN d[key] ELSE None

\* d[key] = val
DictPut(d, key, val) == (key :> val) @@ d

\* The column of the cell read last, in place of the running maximum of line 95.
LastCol(max_col, col_idx) == col_idx

\* max(max_col, col_idx)
MaxCol(max_col, col_idx) == IF col_idx > max_col THEN col_idx ELSE max_col

\* lines 88-95: the cells of one row element
RECURSIVE ScanCells(_, _, _, _)
ScanCells(cells, shared_strings, row_cells, max_col) ==
  IF cells = <<>> THEN [row_cells |-> row_cells, max_col |-> max_col]
  ELSE LET c       == Head(cells)
           col_idx == column_index_from_ref(c.r)
       IN  IF col_idx = 0
           THEN ScanCells(Tail(cells), shared_strings, row_cells, max_col)
           ELSE ScanCells(Tail(cells), shared_strings,
                          DictPut(row_cells, col_idx, parse_cell_value(c, shared_strings)),
                          MaxCol(max_col, col_idx))

\* if row_idx: rows[row_idx] = row_cells
StoreRow(rows, row_idx, row_cells) ==
  IF row_idx # 0 THEN DictPut(rows, row_idx, row_cells) ELSE rows

\* lines 85-97: the row elements of the worksheet
RECURSIVE ScanRows(_, _, _, _)
ScanRows(doc, shared_strings, rows, max_col) ==
  IF doc = <<>> THEN [rows |-> rows, max_col |-> max_col]
  ELSE LET row == Head(doc)
           sc  == ScanCells(row.cells, shared_strings, <<>>, max_col)
       IN  ScanRows(Tail(doc), shared_strings,
                    StoreRow(rows, row.r, sc.row_cells), sc.max_col)

TxtColumn == <<"C", "o", "l", "u", "m", "n">>

\* rows[1].get(col_idx) or f"Column{col_idx}"
HeaderSource(header_cell, col_idx) ==
  IF Truthy(header_cell) THEN header_cell ELSE PyStr(TxtColumn \o NatToDigits(col_idx))

\* lines 101-104
Headers(rows, max_col) ==
  [col_idx \in 1..max_col |-> Strip(StrOf(HeaderSource(DictGet(rows[1], col_idx), col_idx)))]

\* sorted(ints)
RECURSIVE SortedInts(_)
SortedInts(S) ==
  IF S = {} THEN <<>>
  ELSE LET m == CHOOSE x \in S : \A y \in S : x <= y
       IN  <<m>> \o SortedInts(S \ {m})

\* Every stored row index, the "idx != 1" of line 106 left out.
DataRowIndicesAll(rows) == DOMAIN rows

\* idx for idx in rows if idx != 1
DataRowIndices(rows) == {idx \in DOMAIN rows : idx # 1}

\* lines 105-108
DataRows(rows, max_col) ==
  LET order == SortedInts(DataRowIndices(rows))
  IN  [i \in 1..Len(order) |-> [col_idx \in 1..max_col |-> DictGet(rows[order[i]], col_idx)]]

load_first_sheet(pkg) ==
  LET sheet_names == SheetNames(pkg)
  IN  IF sheet_names = <<>> THEN [err |-> "NoWorksheet", sheet |-> NoSheet]
      ELSE LET shared_strings == read_shared_strings(pkg)
               sc == ScanRows(ReadPart(pkg, sheet_names[1]), shared_strings, <<>>, 0)
           IN  IF 1 \notin DOMAIN sc.rows THEN [err |-> "NoHeader", sheet |-> NoSheet]
               ELSE [err   |-> "none",
                     sheet |-> [headers |-> Headers(sc.rows, sc.max_col),
                                rows    |-> DataRows(sc.rows, sc.max_col)]]

\* line 309: sheet = load_first_sheet(Path(args.input))
LoadSheet ==
  /\ pc = "load"
  /\ LET r == load_first_sheet(package)
     IN  /\ sheet' = r.sheet
         /\ err' = r.err
         /\ pc' = IF r.err = "none" THEN "loaded" ELSE "failed"
  /\ UNCHANGED <<package, cell, sst, value, columns, summary, detail>>

(***************************************************************************)
(* load_first_sheet on packages of up to MaxRows row elements              *)
(***************************************************************************)

MaxRows == 3

\* The r attributes drawn: 0 (no r attribute, or r="0"), the header row, and two
\* data rows that are not adjacent.
SampleRowIdx == {0, 1, 2, 5}

Sheet1Name == SheetPrefix \o <<"1">> \o DotXml

Sheet2Name == SheetPrefix \o <<"2">> \o DotXml

Sheet10Name == SheetPrefix \o <<"1", "0">> \o DotXml

RelsName == SheetPrefix \o <<"1">> \o DotXml \o <<".", "r", "e", "l", "s">>

WorkbookName ==
  <<"x", "l", "/", "w", "o", "r", "k", "b", "o", "o", "k">> \o DotXml

SampleNameLists ==
  { <<WorkbookName, SharedStringsName>>,
    <<RelsName>>,
    <<WorkbookName, Sheet2Name, Sheet1Name, SharedStringsName>>,
    <<Sheet2Name, Sheet10Name>> }

\* <si><t>Al</t><t/><t>pha</t></si><si><t>B</t></si>
SheetStrings ==
  << <<Txt(<<"A", "l">>), Absent, Txt(<<"p", "h", "a">>)>>, <<Txt(<<"B">>)>> >>

NumCell(r, v) == Cell(r, "n", Absent, Txt(v))

\* A row element without cells; one with a cell whose address has no letters; one
\* whose cells come in descending column order.
CellsPlain ==
  << NumCell(<<"A", "1">>, <<"5">>), NumCell(<<"7">>, <<"9">>),
     Cell(<<"B", "1">>, "str", Absent, Txt(<<"x">>)) >>

CellsReversed ==
  << Cell(<<"C", "3">>, "s", Absent, Txt(<<"0">>)), NumCell(<<"B", "2">>, <<"0">>),
     Cell(<<"A", "2">>, "inlineStr", Txt(<<" ", "Q", "t", "y", " ">>), Absent) >>

SampleCellLists == {<<>>, CellsPlain, CellsReversed}

\* The row elements drawn: those with an index carry any of the cell lists, the one
\* without an index carries the cells that reach the widest column.
SampleRows ==
  {Row(r, cells) : r \in SampleRowIdx \ {0}, cells \in SampleCellLists}
    \cup {Row(0, CellsReversed)}

SampleDocs == UNION {[1..n -> SampleRows] : n \in 0..MaxRows}

\* What the other parts of the package hold: a sheet with a header row only.
DecoyDoc == << Row(1, << Cell(<<"A", "1">>, "str", Absent, Txt(<<"D", "e", "c", "o", "y">>)) >>) >>

\* The package with these part names whose k-th part holds the rows d.
PackageOf(names, k, d) ==
  [names   |-> names,
   docs    |-> [i \in 1..Len(names) |-> IF i = k THEN d ELSE DecoyDoc],
   strings |-> SheetStrings]

InitSheet ==
  /\ pc = "load"
  /\ \E names \in SampleNameLists :
       \/ /\ \A i \in 1..Len(names) : ~IsWorksheetName(names[i])
          /\ package = PackageOf(names, 0, <<>>)
       \/ \E d \in SampleDocs, k \in 1..Len(names) :
            /\ IsWorksheetName(names[k])
            /\ package = PackageOf(names, k, d)
  /\ cell = NoCell
  /\ sst = <<>>
  /\ value = None
  /\ sheet = NoSheet
  /\ columns = <<>>
  /\ summary = <<>>
  /\ detail = <<>>
  /\ err = "none"

NextSheet == LoadSheet

SpecSheet == InitSheet /\ [][NextSheet]_vars

(***************************************************************************)
(* What the package holds, read off the input alone                        *)
(***************************************************************************)

\* name is xl/worksheets/sheet*.xml
GlobSheet(name) ==
  \E n \in 0..(Len(name) - Len(SheetPrefix) - Len(DotXml)) :
     name = SheetPrefix \o SubSeq(name, Len(SheetPrefix) + 1, Len(SheetPrefix) + n) \o DotXml

WorksheetParts == {i \in 1..Len(package.names) : GlobSheet(package.names[i])}

\* The worksheet part whose name is below every other worksheet part's name.
FirstPart ==
  CHOOSE i \in WorksheetParts :
    \A j \in WorksheetParts \ {i} : StrLess(package.names[i], package.names[j])

FirstDoc == package.docs[FirstPart]

ColOfCell(d, i, j) == column_index_from_ref(d[i].cells[j].r)

ColsSeen(d) ==
  UNION {{ColOfCell(d, i, j) : j \in 1..Len(d[i].cells)} : i \in 1..Len(d)} \ {0}

ColumnCount(d) == IF ColsSeen(d) = {} THEN 0 ELSE CHOOSE c \in ColsSeen(d) : \A x \in ColsSeen(d) : x <= c

RowIndices(d) == {d[i].r : i \in 1..Len(d)}

\* The k-th smallest member of S.
Kth(S, k) == CHOOSE x \in S : Cardinality({y \in S : y < x}) = k - 1

HasCellAt(d, idx, c) ==
  \E i \in 1..Len(d) : d[i].r = idx /\ \E j \in 1..Len(d[i].cells) : ColOfCell(d, i, j) = c

IsValueOfCellAt(d, idx, c, v) ==
  \E i \in 1..Len(d) :
     /\ d[i].r = idx
     /\ \E j \in 1..Len(d[i].cells) :
          /\ ColOfCell(d, i, j) = c
          /\ parse_cell_value(d[i].cells[j], read_shared_strings(package)) = v

\* The sheet has ColumnCount columns throughout and one row for each index of S,
\* in ascending order of index, each holding only cells of the source row of its
\* index and None where that source row has no cell.
SheetShape(d, S) ==
  /\ Len(sheet.headers) = ColumnCount(d)
  /\ Len(sheet.rows) = Cardinality(S)
  /\ \A k \in 1..Len(sheet.rows) :
       /\ Len(sheet.rows[k]) = ColumnCount(d)
       /\ \A c \in 1..ColumnCount(d) :
            /\ ~HasCellAt(d, Kth(S, k), c) => sheet.rows[k][c] = None
            /\ sheet.rows[k][c] # None => IsValueOfCellAt(d, Kth(S, k), c, sheet.rows[k][c])

\* C3 (as stated): after load_first_sheet succeeds, headers and every row have
\* length column_count (the largest column index of any cell seen), a row is None
\* where its source row has no cell, and rows holds exactly one row per distinct
\* source row index other than 1, in ascending order of index.
C3_ShapeEveryIndex ==
  pc = "loaded" => SheetShape(FirstDoc, RowIndices(FirstDoc) \ {1})

\* C3 (amended): the same, with one row per distinct non-zero source row index
\* other than 1: a row element whose index is absent or 0 contributes no row,
\* while its cells still count toward column_count.
C3_ShapeNonZeroIndex ==
  pc = "loaded" => SheetShape(FirstDoc, RowIndices(FirstDoc) \ {0, 1})

\* A sheet loaded from two data rows given in descending order of index, one of
\* them with a gap filled with None.
C3_Witness ==
  /\ pc = "loaded"
  /\ Len(sheet.rows) = 2
  /\ \E i, j \in 1..Len(FirstDoc) : i < j /\ FirstDoc[i].r = 5 /\ FirstDoc[j].r = 2
  /\ \E k \in 1..Len(sheet.rows), c \in 1..Len(sheet.headers) :
       sheet.rows[k][c] = None /\ sheet.rows[k][1] # None

\* A sheet loaded while a row element without index carries the widest cell.
C3_WitnessRowZero ==
  /\ pc = "loaded"
  /\ \E i \in 1..Len(FirstDoc) :
       /\ FirstDoc[i].r = 0
       /\ \E j \in 1..Len(FirstDoc[i].cells) : ColOfCell(FirstDoc, i, j) = Len(sheet.headers)
  /\ Len(sheet.rows) = 1

HeaderCell(d, n) ==
  LET last == CHOOSE i \in 1..Len(d) : d[i].r = 1 /\ \A i2 \in (i + 1)..Len(d) : d[i2].r # 1
      at   == {j \in 1..Len(d[last].cells) : ColOfCell(d, last, j) = n}
  IN  IF at = {} THEN None
      ELSE parse_cell_value(d[last].cells[CHOOSE j \in at : \A j2 \in at : j2 <= j],
                            read_shared_strings(package))

\* A Number, whatever its value, or a non-empty Text
NonEmptyValue(v) == v.k = "float" \/ (v.k = "str" /\ v.s # <<>>)

\* C8: header n is the stringified row-1 cell of column n when that cell holds a
\* Number (whatever its value) or a non-empty Text, and "Column{n}" exactly when the
\* cell is Empty or was never recorded.
C8_HeaderConstruction ==
  pc = "loaded" =>
    \A n \in 1..ColumnCount(FirstDoc) :
       LET hc == HeaderCell(FirstDoc, n)
       IN  IF NonEmptyValue(hc)
           THEN sheet.headers[n] = StrOf(hc)
           ELSE sheet.headers[n] = TxtColumn \o NatToDigits(n)

(***************************************************************************)
(* load_first_sheet on one worksheet whose row elements and cells come in   *)
(* any order                                                               *)
(***************************************************************************)

MaxOrderRows == 3

CellsAscending ==
  << NumCell(<<"A", "1">>, <<"5">>), Cell(<<"B", "1">>, "str", Absent, Txt(<<"x">>)) >>

CellsDescending ==
  << Cell(<<"C", "3">>, "s", Absent, Txt(<<"0">>)),
     Cell(<<"A", "2">>, "inlineStr", Txt(<<"Q", "t", "y">>), Absent) >>

\* Row elements with an index carry either cell list; the one without an index
\* carries the cells that reach the widest column.
OrderRows ==
  {Row(r, cells) : r \in SampleRowIdx \ {0}, cells \in {CellsAscending, CellsDescending}}
    \cup {Row(0, CellsDescending)}

OrderDocs == UNION {[1..n -> OrderRows] : n \in 0..MaxOrderRows}

InitOrder ==
  /\ pc = "load"
  /\ \E d \in OrderDocs : package = PackageOf(<<Sheet1Name, SharedStringsName>>, 1, d)
  /\ cell = NoCell
  /\ sst = <<>>
  /\ value = None
  /\ sheet = NoSheet
  /\ columns = <<>>
  /\ summary = <<>>
  /\ detail = <<>>
  /\ err = "none"

NextOrder == LoadSheet

SpecOrder == InitOrder /\ [][NextOrder]_vars

\* The orders of a sequence.
Reorderings(seq) ==
  {[i \in 1..Len(seq) |-> seq[p[i]]] : p \in Permutations(1..Len(seq))}

\* The documents with the cells of each row element of rs in any order.
RECURSIVE CellOrders(_)
CellOrders(rs) ==
  IF rs = <<>> THEN {<<>>}
  ELSE {<<Row(Head(rs).r, cs)>> \o rest :
          cs \in Reorderings(Head(rs).cells), rest \in CellOrders(Tail(rs))}

\* The documents with the row elements of d in any order and the cells of each row
\* element in any order.
Rearranged(d) == UNION {CellOrders(rs) : rs \in Reorderings(d)}

\* Every row index is declared by one row element at most, and every row element
\* has one cell per column at most.
EachCellOnce(d) ==
  /\ \A i, j \in 1..Len(d) : (i # j /\ d[i].r # 0) => d[i].r # d[j].r
  /\ \A i \in 1..Len(d) : \A j, k \in 1..Len(d[i].cells) :
       (j # k /\ ColOfCell(d, i, j) # 0) => ColOfCell(d, i, j) # ColOfCell(d, i, k)

\* C9: when every (row index, column index) pair occurs once at most and every row
\* index is declared by one row element at most, load_first_sheet returns the same
\* headers and the same rows in the same order for every order of the row elements
\* and every order of the cells inside each row element.
C9_ArrivalOrderIndependent ==
  (pc # "load" /\ EachCellOnce(FirstDoc)) =>
     \A d2 \in Rearranged(FirstDoc) :
        load_first_sheet([package EXCEPT !.docs[FirstPart] = d2]) = [err |-> err, sheet |-> sheet]

\* A sheet of two data rows, loaded from row elements given in descending order of
\* index with the cells of one in descending order of column.
C9_Witness ==
  /\ pc = "loaded"
  /\ EachCellOnce(FirstDoc)
  /\ Len(sheet.rows) = 2
  /\ Len(FirstDoc) = 3
  /\ FirstDoc[1].r = 5 /\ FirstDoc[2].r = 2 /\ FirstDoc[3].r = 1
  /\ FirstDoc[1].cells = CellsDescending
  /\ Cardinality(Rearranged(FirstDoc)) > 40

(***************************************************************************)
(* Column classifier                                                       *)
(***************************************************************************)

\* lines 112-120; the result is None or a float
parse_numeric(v) ==
  IF v.k = "None" \/ (v.k = "str" /\ v.s = <<>>) THEN None
  ELSE IF v.k = "float" THEN v
  ELSE LET p == ParseFloat(RemoveChar(StrOf(v), ","))
       IN  IF p.ok THEN PyFloat(p.f) ELSE None

\* The serial-date range of line 144.
SerialLow == 20000

SerialHigh == 60000

\* 0.01 of line 144, in thousandths
NearInteger == 10

\* 0.8 of line 146, as DateShareNum / DateShareDen
DateShareNum == 4

DateShareDen == 5

TxtDate == <<"d", "a", "t", "e">>

\* 20000 <= value <= 60000 and abs(value - round(value)) < 0.01
\* (every comparison with nan is false, and no inf is at most 60000)
IsSerialDate(f) ==
  /\ f.cls = "fin"
  /\ ~f.neg
  /\ f.hi = 0
  /\ f.lo >= SerialLow
  /\ f.lo < SerialHigh \/ (f.lo = SerialHigh /\ f.frac = 0)
  /\ f.frac < NearInteger \/ FracUnit - f.frac < NearInteger

\* lines 142-145
RECURSIVE CountSerialDates(_)
CountSerialDates(values) ==
  IF values = <<>> THEN 0
  ELSE (IF IsSerialDate(Head(values)) THEN 1 ELSE 0) + CountSerialDates(Tail(values))

\* date_like / len(values) >= 0.8: the quotient of two small integers is the
\* float nearest to it, and 0.8 is the float nearest to 4/5
ShareAtLeast(date_like, n) == date_like * DateShareDen >= DateShareNum * n

is_date_like_column(header, values) ==
  IF Contains(Lower(header), TxtDate) THEN TRUE
  ELSE IF values = <<>> THEN FALSE
  ELSE ShareAtLeast(CountSerialDates(values), Len(values))

\* {header: [] for header in sheet.headers}: one key per distinct header, in the
\* order of first occurrence
RECURSIVE EmptyColumns(_, _)
EmptyColumns(headers, cols) ==
  IF headers = <<>> THEN cols
  ELSE IF \E i \in 1..Len(cols) : cols[i].key = Head(headers)
       THEN EmptyColumns(Tail(headers), cols)
       ELSE EmptyColumns(Tail(headers), Append(cols, [key |-> Head(headers), val |-> <<>>]))

\* columns[header].append(numeric_value)
AppendValue(cols, header, f) ==
  [i \in 1..Len(cols) |->
     IF cols[i].key = header THEN [key |-> header, val |-> Append(cols[i].val, f)] ELSE cols[i]]

\* lines 126-129: zip(sheet.headers, row) from position j on
RECURSIVE CollectRow(_, _, _, _)
CollectRow(cols, headers, row, j) ==
  IF j > Len(headers) \/ j > Len(row) THEN cols
  ELSE LET numeric_value == parse_numeric(row[j])
       IN  CollectRow(IF numeric_value # None
                      THEN AppendValue(cols, headers[j], numeric_value.f)
                      ELSE cols,
                      headers, row, j + 1)

\* line 125
RECURSIVE CollectRows(_, _, _)
CollectRows(cols, headers, rows) ==
  IF rows = <<>> THEN cols
  ELSE CollectRows(CollectRow(cols, headers, Head(rows), 1), headers, Tail(rows))

\* lines 130-134
Retained(e) == e.val # <<>> /\ ~is_date_like_column(e.key, e.val)

numeric_columns(sh) ==
  SelectSeq(CollectRows(EmptyColumns(sh.headers, <<>>), sh.headers, sh.rows), Retained)

\* line 310: columns = numeric_columns(sheet)
Classify ==
  /\ pc = "loaded"
  /\ columns' = numeric_columns(sheet)
  /\ pc' = "classified"
  /\ UNCHANGED <<package, cell, sst, value, sheet, summary, detail, err>>

(***************************************************************************)
(* numeric_columns on sheets of two columns and up to MaxSheetRows rows    *)
(***************************************************************************)

MaxSheetRows == 5

TxtAmount == <<"A", "m", "o", "u", "n", "t">>

TxtQty == <<"Q", "t", "y">>

TxtUpdate == <<"U", "p", "D", "a", "t", "e">>

SampleHeaderLists ==
  { <<TxtAmount, TxtQty>>, <<TxtAmount, TxtAmount>>, <<TxtAmount, TxtUpdate>>,
    <<TxtUpdate, TxtQty>> }

\* A serial date, a value within 0.01 of one, an amount, an amount written with a
\* thousands comma that is a serial date, a text and an empty cell.
FirstColumnValues ==
  { PyFloat(Fin(FALSE, 0, 25000, 0)), PyFloat(Fin(FALSE, 0, 20000, 5)),
    PyFloat(Fin(FALSE, 0, 7, 0)), PyStr(<<"3", "0", ",", "0", "0", "0">>),
    PyStr(<<"x">>), None }

SecondColumnValues ==
  { PyFloat(Fin(FALSE, 0, 60000, 0)), PyFloat(Fin(FALSE, 0, 7, 500)), None }

\* n cells: a in the first k, b in the rest
ColumnOf(n, k, a, b) == [i \in 1..n |-> IF i <= k THEN a ELSE b]

ColumnsOf(n, V) == {ColumnOf(n, k, a, b) : k \in 0..n, a \in V, b \in V}

SheetOf(headers, c1, c2) ==
  [headers |-> headers, rows |-> [i \in 1..Len(c1) |-> <<c1[i], c2[i]>>]]

InitClassify ==
  /\ pc = "loaded"
  /\ \E headers \in SampleHeaderLists, n \in 0..MaxSheetRows :
       \E c1 \in ColumnsOf(n, FirstColumnValues), c2 \in ColumnsOf(n, SecondColumnValues) :
          sheet = SheetOf(headers, c1, c2)
  /\ package = NoPackage
  /\ cell = NoCell
  /\ sst = <<>>
  /\ value = None
  /\ columns = <<>>
  /\ summary = <<>>
  /\ detail = <<>>
  /\ err = "none"

NextClassify == Classify

SpecClassify == InitClassify /\ [][NextClassify]_vars

\* The parsed values of sheet column j, in row order.
RECURSIVE ParsedCells(_, _)
ParsedCells(rows, j) ==
  IF rows = <<>> THEN <<>>
  ELSE LET p == parse_numeric(Head(rows)[j])
       IN  (IF p # None THEN <<p.f>> ELSE <<>>) \o ParsedCells(Tail(rows), j)

ParsedColumn(j) == ParsedCells(sheet.rows, j)

ColumnKeys == {columns[i].key : i \in 1..Len(columns)}

\* The number of members of values in [20000, 60000] that are within 0.01 of an
\* integer.
SerialCount(values) == Cardinality({i \in 1..Len(values) : IsSerialDate(values[i])})

\* C5: a header is a key of numeric_columns' result exactly when its column has a
\* cell that parses as a number, the header does not contain "date" in any case,
\* and fewer than 80% of the column's parsed values are serial dates (integers, to
\* within 0.01, in [20000, 60000]).
C5_RetentionRule ==
  pc = "classified" =>
    \A j \in 1..Len(sheet.headers) :
       sheet.headers[j] \in ColumnKeys <=>
         /\ ParsedColumn(j) # <<>>
         /\ ~Contains(Lower(sheet.headers[j]), TxtDate)
         /\ 5 * SerialCount(ParsedColumn(j)) < 4 * Len(ParsedColumn(j))

\* C10: every column of numeric_columns' result holds the parsed values of exactly
\* one sheet column, in row order, and every sheet column that has a parsed value
\* and is not date-like is in the result.
C10_OneSheetColumnEach ==
  pc = "classified" =>
    /\ \A i \in 1..Len(columns) :
         \E j \in 1..Len(sheet.headers) :
            sheet.headers[j] = columns[i].key /\ columns[i].val = ParsedColumn(j)
    /\ \A j \in 1..Len(sheet.headers) :
         (ParsedColumn(j) # <<>> /\ ~is_date_like_column(sheet.headers[j], ParsedColumn(j)))
           => \E i \in 1..Len(columns) :
                 columns[i].key = sheet.headers[j] /\ columns[i].val = ParsedColumn(j)

(***************************************************************************)
(* Benford engine                                                          *)
(***************************************************************************)

\* One million: frequencies are kept in millionths. The rational num / (den * Ppm)
\* is the record [num, den].
Ppm == 1000000

\* math.log10(1 + 1 / digit) for digit 1..9, in millionths
EXPECTED_DIGITS ==
  <<301030, 176091, 124939, 96910, 79181, 66947, 57992, 51153, 45757>>

Digits == 1..9

\* The number of decimal digits of the integer part of a finite magnitude >= 1.
IntDigits(f) == IF f.hi > 0 THEN LimbDigits + NumDigits(f.hi) ELSE NumDigits(f.lo)

\* The first magnitudes whose log10 is the float 15.0: the floats next to 15.0 are
\* 2^-49 apart, and log10(10^15 - 2) is nearer to 15.0 than to the float below it.
RoundsUpDigits == 15

RoundsUpWithin == 2

\* The exponent as the number of integer digits, one more than the floor of the
\* decimal logarithm (line 155).
CeilLog10(f) == IntDigits(f)

\* math.floor(math.log10(value)) for a finite value >= 1
FloorLog10(f) ==
  IF /\ IntDigits(f) = RoundsUpDigits
     /\ f.hi = Pow10(RoundsUpDigits - LimbDigits) - 1
     /\ f.lo >= Limb - RoundsUpWithin
  THEN RoundsUpDigits
  ELSE IntDigits(f) - 1

\* int(value / (10**exponent)) for a finite value >= 1
LeadingAt(f, exponent) ==
  IF exponent >= LimbDigits
  THEN f.hi \div Pow10(exponent - LimbDigits)
  ELSE (f.lo \div Pow10(exponent)) + f.hi * Pow10(LimbDigits - exponent)

\* The same two steps for a value 0.001 .. 0.999 of frac thousandths: the quotient
\* is exact but for 0.3 / 0.1, 0.6 / 0.1 and 0.7 / 0.1, which fall just below 3, 6, 7.
QuotientBelow == {300, 600, 700}

SubUnitLeading(frac) ==
  (frac \div Pow10(NumDigits(frac) - 1)) - (IF frac \in QuotientBelow THEN 1 ELSE 0)

\* int(abs(value) / 10**math.floor(math.log10(abs(value)))) for a finite value # 0
Leading(f) ==
  IF f.hi = 0 /\ f.lo = 0 THEN SubUnitLeading(f.frac)
  ELSE LeadingAt(Abs(f), FloorLog10(Abs(f)))

\* lines 152-158 for one value: the digits it adds, or the exception of
\* math.floor(nan) and math.floor(inf)
DigitOf(f) ==
  IF IsZero(f) THEN [exc |-> "none", digits |-> <<>>]
  ELSE IF f.cls = "nan" THEN [exc |-> "ValueError", digits |-> <<>>]
  ELSE IF f.cls = "inf" THEN [exc |-> "OverflowError", digits |-> <<>>]
  ELSE LET leading == Leading(f)
       IN  [exc |-> "none", digits |-> IF 1 <= leading /\ leading <= 9 THEN <<leading>> ELSE <<>>]

RECURSIVE leading_digits(_)
leading_digits(values) ==
  IF values = <<>> THEN [exc |-> "none", digits |-> <<>>]
  ELSE LET h == DigitOf(Head(values))
       IN  IF h.exc # "none" THEN h
           ELSE LET t == leading_digits(Tail(values))
                IN  IF t.exc # "none" THEN t
                    ELSE [exc |-> "none", digits |-> h.digits \o t.digits]

\* digits.count(digit)
CountOf(digits, digit) == Cardinality({i \in 1..Len(digits) : digits[i] = digit})

RECURSIVE SumSeq(_)
SumSeq(s) == IF s = <<>> THEN 0 ELSE Head(s) + SumSeq(Tail(s))

\* counts[digit] / total if total else 0
Observed(count, total) ==
  IF total # 0 THEN [num |-> count * Ppm, den |-> total] ELSE [num |-> 0, den |-> 1]

\* observed - expected
Deviation(observed, expected) ==
  [num |-> observed.num - expected * observed.den, den |-> observed.den]

\* lines 166-179, given the digits
DigitRows(digits, label) ==
  LET counts == [digit \in Digits |-> CountOf(digits, digit)]
      total  == SumSeq(counts)
  IN  [digit \in Digits |->
         [column    |-> label,
          digit     |-> digit,
          count     |-> counts[digit],
          observed  |-> Observed(counts[digit], total),
          expected  |-> EXPECTED_DIGITS[digit],
          deviation |-> Deviation(Observed(counts[digit], total), EXPECTED_DIGITS[digit])]]

benford_for_column(values, label) ==
  LET ld == leading_digits(values)
  IN  [exc |-> ld.exc, rows |-> IF ld.exc = "none" THEN DigitRows(ld.digits, label) ELSE <<>>]

\* abs(row["deviation"])
AbsDev(row) ==
  [num |-> IF row.deviation.num < 0 THEN -row.deviation.num ELSE row.deviation.num,
   den |-> row.deviation.den]

\* a < b for rationals of positive denominator
RatLess(a, b) == a.num * b.den < b.num * a.den

\* max(rows, key=...): the first row that no row exceeds
FirstMaxRow(rows) ==
  rows[CHOOSE i \in 1..Len(rows) :
         /\ \A j \in 1..Len(rows) : ~RatLess(AbsDev(rows[i]), AbsDev(rows[j]))
         /\ \A j \in 1..(i - 1) : RatLess(AbsDev(rows[j]), AbsDev(rows[i]))]

\* lines 190-202: the summary row of one column; its rows share one denominator
SummaryRow(label, digit_detail) ==
  LET column_rows == SelectSeq(digit_detail, LAMBDA row : row.column = label)
      deviations  == [i \in 1..Len(column_rows) |-> AbsDev(column_rows[i])]
      max_dev_row == FirstMaxRow(column_rows)
  IN  [column              |-> label,
       total_values        |-> SumSeq([i \in 1..Len(column_rows) |-> column_rows[i].count]),
       mad                 |-> [num |-> SumSeq([i \in 1..Len(deviations) |-> deviations[i].num]),
                                den |-> Len(deviations) * deviations[1].den],
       max_abs_deviation   |-> AbsDev(max_dev_row),
       top_deviation_digit |-> max_dev_row.digit]

\* The insertion of a sort that puts a row before the rows of equal mad, as
\* reversing an ascending sort does, in place of the stable sort of line 203.
RECURSIVE InsertByMadTiesFirst(_, _)
InsertByMadTiesFirst(row, sorted) ==
  IF sorted = <<>> THEN <<row>>
  ELSE IF ~RatLess(row.mad, Head(sorted).mad) THEN <<row>> \o sorted
  ELSE <<Head(sorted)>> \o InsertByMadTiesFirst(row, Tail(sorted))

\* list.sort(key=mad, reverse=True): stable, the larger mad first
RECURSIVE InsertByMad(_, _)
InsertByMad(row, sorted) ==
  IF sorted = <<>> THEN <<row>>
  ELSE IF RatLess(Head(sorted).mad, row.mad) THEN <<row>> \o sorted
  ELSE <<Head(sorted)>> \o InsertByMad(row, Tail(sorted))

RECURSIVE SortByMad(_)
SortByMad(rows) ==
  IF rows = <<>> THEN <<>>
  ELSE InsertByMad(rows[Len(rows)], SortByMad(SubSeq(rows, 1, Len(rows) - 1)))

\* lines 184-186
RECURSIVE DigitDetail(_)
DigitDetail(cols) ==
  IF cols = <<>> THEN [exc |-> "none", rows |-> <<>>]
  ELSE LET h == benford_for_column(Head(cols).val, Head(cols).key)
       IN  IF h.exc # "none" THEN h
           ELSE LET t == DigitDetail(Tail(cols))
                IN  IF t.exc # "none" THEN t
                    ELSE [exc |-> "none", rows |-> h.rows \o t.rows]

summarize_benford(cols) ==
  LET dd == DigitDetail(cols)
  IN  IF dd.exc # "none" THEN [exc |-> dd.exc, summary |-> <<>>, digit_detail |-> <<>>]
      ELSE [exc          |-> "none",
            summary      |-> SortByMad([i \in 1..Len(cols) |-> SummaryRow(cols[i].key, dd.rows)]),
            digit_detail |-> dd.rows]

\* line 311: summary, digit_detail = summarize_benford(columns)
Summarize ==
  /\ pc = "classified"
  /\ LET r == summarize_benford(columns)
     IN  /\ summary' = r.summary
         /\ detail' = r.digit_detail
         /\ err' = r.exc
         /\ pc' = IF r.exc = "none" THEN "done" ELSE "failed"
  /\ UNCHANGED <<package, cell, sst, value, sheet, columns>>

(***************************************************************************)
(* summarize_benford on mappings of up to two columns of up to MaxValues   *)
(* integer-valued numbers                                                  *)
(***************************************************************************)

MaxValues == 2

\* 10^15 - 1 and 10^15 - 3
JustBelowPow15 == Fin(FALSE, Pow10(RoundsUpDigits - LimbDigits) - 1, Limb - 1, 0)

ThreeBelowPow15 == Fin(FALSE, Pow10(RoundsUpDigits - LimbDigits) - 1, Limb - 3, 0)

BenfordValues ==
  { FloatOfInt(-30), FloatOfInt(0), FloatOfInt(1000), JustBelowPow15, ThreeBelowPow15 }

ValueLists == UNION {[1..n -> BenfordValues] : n \in 1..MaxValues}

SampleLabels == << <<"A">>, <<"B">> >>

\* The dicts whose keys are the first n labels.
Mappings(n) ==
  {[i \in 1..n |-> [key |-> SampleLabels[i], val |-> vals[i]]] : vals \in [1..n -> ValueLists]}

InitBenford ==
  /\ pc = "classified"
  /\ \E n \in 0..Len(SampleLabels) : columns \in Mappings(n)
  /\ package = NoPackage
  /\ cell = NoCell
  /\ sst = <<>>
  /\ value = None
  /\ sheet = NoSheet
  /\ summary = <<>>
  /\ detail = <<>>
  /\ err = "none"

NextBenford == Summarize

SpecBenford == InitBenford /\ [][NextBenford]_vars

\* The first decimal digit of a finite value of magnitude >= 1, read off its
\* decimal writing.
FirstDecimalDigit(f) == Ord[Head(FloatStr(Abs(f)))] - Ord["0"]

\* The detail rows of a column.
RowsOf(label) == SelectSeq(detail, LAMBDA row : row.column = label)

SummaryOf(label) == summary[CHOOSE k \in 1..Len(summary) : summary[k].column = label]

RatEq(a, b) == a.num * b.den = b.num * a.den

\* The histogram of the column of values vals, counting the values in Counted:
\* nine rows, digits ascending, each count the number of counted values of that first
\* decimal digit, total_values the number of counted values, observed the share
\* of the count in it (0 when it is 0).
Histogram(label, vals, Counted) ==
  LET rows == RowsOf(label)
  IN  /\ Len(rows) = 9
      /\ \A d \in 1..9 :
           /\ rows[d].digit = d
           /\ rows[d].count = Cardinality({i \in Counted : FirstDecimalDigit(vals[i]) = d})
           /\ IF Counted # {}
              THEN RatEq(rows[d].observed, [num |-> rows[d].count * Ppm, den |-> Cardinality(Counted)])
              ELSE rows[d].observed.num = 0
      /\ SumSeq([d \in 1..9 |-> rows[d].count]) = Cardinality(Counted)
      /\ SummaryOf(label).total_values = Cardinality(Counted)
      /\ Counted # {} => SumSeq([d \in 1..9 |-> rows[d].observed.num]) = Ppm * rows[1].observed.den

NonZero(vals) == {i \in 1..Len(vals) : ~IsZero(vals[i])}

\* The magnitudes 10^15 - 1 and 10^15 - 2, by their decimal writing.
Nines(n) == [i \in 1..n |-> "9"]

JustBelowPow15Strs ==
  { Nines(RoundsUpDigits) \o <<".", "0">>, Nines(RoundsUpDigits - 1) \o <<"8", ".", "0">> }

IsJustBelowPow15(f) == FloatStr(Abs(f)) \in JustBelowPow15Strs

\* C6 (as stated): for integer-valued values of any sign, each column has nine
\* detail rows, digits 1..9 ascending; count(d) is the number of non-zero values
\* whose magnitude has first decimal digit d; the counts sum to the number of
\* non-zero values, which is total_values; observed(d) = count(d) / total, the nine
\* summing to 1, and 0 for all nine when total is 0.
C6_HistogramOfNonZero ==
  pc = "done" =>
    \A i \in 1..Len(columns) :
       Histogram(columns[i].key, columns[i].val, NonZero(columns[i].val))

\* C6 (amended): the same over the values counted, which are the non-zero values
\* other than those of magnitude 10^15 - 1 and 10^15 - 2: for these log10 rounds up
\* to 15.0, the computed digit is 0 and the value is counted under no digit, so the
\* counts sum to, and total_values is, the number of counted values.
C6_HistogramOfCounted ==
  pc = "done" =>
    \A i \in 1..Len(columns) :
       Histogram(columns[i].key, columns[i].val,
                 {j \in NonZero(columns[i].val) : ~IsJustBelowPow15(columns[i].val[j])})

\* A column of a negative value and 10^15 - 3, one under digit 3 and one under 9.
C6_Witness ==
  /\ pc = "done"
  /\ \E i \in 1..Len(columns) :
       /\ columns[i].val = <<FloatOfInt(-30), ThreeBelowPow15>>
       /\ RowsOf(columns[i].key)[3].count = 1
       /\ RowsOf(columns[i].key)[9].count = 1

\* The place of a label in the mapping.
PlaceOf(label) == CHOOSE i \in 1..Len(columns) : columns[i].key = label

\* abs(observed(d) - expected(d)) of a column, from its detail rows
AbsDevOf(label, d) ==
  LET row == RowsOf(label)[d]
      num == row.observed.num - EXPECTED_DIGITS[d] * row.observed.den
  IN  [num |-> IF num < 0 THEN -num ELSE num, den |-> row.observed.den]

C7_WitnessTie ==
  /\ pc = "done"
  /\ Len(summary) = 2
  /\ RatEq(summary[1].mad, summary[2].mad)
  /\ columns[1].val # columns[2].val

(***************************************************************************)
(* The run of main on a package: load_first_sheet, numeric_columns,        *)
(* summarize_benford                                                       *)
(***************************************************************************)

MaxDataRows == 2

\* <row r="1"> with A1 = "Amount" and B1 = "Qty"
HeaderRow ==
  Row(1, << Cell(<<"A", "1">>, "inlineStr", Txt(TxtAmount), Absent),
            Cell(<<"B", "1">>, "str", Absent, Txt(TxtQty)) >>)

\* What a cell of column A may hold: numbers, a zero, a negative, non-finite
\* spellings, a thousands comma, a shared string, texts, and a cell whose address
\* has no letters.
AmountCells ==
  { NumCell(<<"A">>, <<"5">>),
    NumCell(<<"A">>, <<"0">>),
    NumCell(<<"A">>, <<"-", "3", "0">>),
    NumCell(<<"A">>, <<"n", "a", "n">>),
    Cell(<<"A">>, "absent", Absent, Txt(<<"I", "n", "f">>)),
    Cell(<<"A">>, "inlineStr", Txt(<<"1", ",", "0", "0", "0">>), Absent),
    Cell(<<"A">>, "s", Absent, Txt(<<"0">>)),
    Cell(<<"A">>, "s", Absent, Txt(<<"9">>)),
    NumCell(<<"A">>, <<"a", "b", "c">>),
    NumCell(<<"7">>, <<"5">>) }

QtyCells == { NumCell(<<"B">>, <<"2", "5", "0", "0", "0">>), NumCell(<<"B">>, <<"7">>) }

DataRowsAt(n) ==
  {[i \in 1..n |-> Row(i + 1, <<a[i], b[i]>>)] : a \in [1..n -> AmountCells], b \in [1..n -> QtyCells]}

RunDocs ==
  UNION {{<<HeaderRow>> \o rows : rows \in DataRowsAt(n)} \cup DataRowsAt(n) : n \in 0..MaxDataRows}

Init ==
  /\ pc = "load"
  /\ \/ \E d \in RunDocs : package = PackageOf(<<SharedStringsName, Sheet1Name>>, 2, d)
     \/ package = PackageOf(<<WorkbookName>>, 0, <<>>)
  /\ cell = NoCell
  /\ sst = <<>>
  /\ value = None
  /\ sheet = NoSheet
  /\ columns = <<>>
  /\ summary = <<>>
  /\ detail = <<>>
  /\ err = "none"

Next == LoadSheet \/ Classify \/ Summarize

Spec == Init /\ [][Next]_vars

\* C2: whatever address, type and value text the cells carry, the run
\* load_first_sheet, numeric_columns, summarize_benford ends with a summary and a
\* detail sequence; the only errors are the missing worksheet and the missing
\* header row.
C2_OnlyStructuralErrors ==
  /\ err \in {"none", "NoWorksheet", "NoHeader"}
  /\ pc = "failed" => err # "none"

====
